---- MODULE Spec2Model ----
(***************************************************************************)
(* Session and dispatch layer of the DATAR API server (src/API/server.py). *)
(*                                                                         *)
(* Every handler is an `async def` run by one event loop.  A handler runs  *)
(* uninterrupted until it awaits something that suspends; the only await   *)
(* of an outside coroutine on the dispatch path is                         *)
(* `await runner.session_service.create_session(...)` (line 148), so a     *)
(* dispatch is two uninterrupted segments around that await when it has to *)
(* create its session.  `runner.run(...)` is a synchronous generator       *)
(* consumed by a plain `for`: while it runs, no other handler runs, but    *)
(* wall-clock time passes.                                                 *)
(*                                                                         *)
(* Text is a sequence of characters; time is the integer reading of the    *)
(* wall clock, which is taken not to run backwards.                        *)
(***************************************************************************)
EXTENDS Integers, Sequences, FiniteSets, TLC

\* ---------------------------------------------------------------- bounds
NumProcs == 2          \* request slots that can be in flight together
MaxUuids == 1          \* session ids minted by uuid4
MaxDispatches == 2     \* dispatches started in one behaviour
MaxClock == 1          \* last reading of the wall clock
MaxMsgLen == 2         \* longest request message
MaxEvents == 2         \* events one run of the runner emits
MaxParts == 2          \* parts of one event's content
MaxFragLen == 2        \* characters of one part's text
MaxTextLen == 4        \* characters of the text one run adds up to
MaxTurns == 1          \* turns of the history the session service returns

\* ----------------------------------------------------- program constants
MAX_MESSAGE_LENGTH == 1
MAX_RESPONSE_LENGTH == 3

Procs == 1..NumProcs
NoSession == 0                         \* request.session_id is None (or "")
ClientIds == {1}                       \* the session ids clients supply
UuidBase == 100
Uuid(n) == UuidBase + n                \* the n-th value of str(uuid.uuid4())
SessionIds == ClientIds \cup {Uuid(n) : n \in 1..MaxUuids}

Chars == {" ", "a"}
Whitespace == {" "}

SeqsUpTo(S, n) == UNION {[1..k -> S] : k \in 0..n}

\* ------------------------------------------------------------ str methods
RECURSIVE lstrip(_)
lstrip(s) ==
    IF s = <<>> THEN <<>>
    ELSE IF Head(s) \in Whitespace THEN lstrip(Tail(s)) ELSE s

RECURSIVE rstrip(_)
rstrip(s) ==
    IF s = <<>> THEN <<>>
    ELSE IF s[Len(s)] \in Whitespace THEN rstrip(SubSeq(s, 1, Len(s) - 1)) ELSE s

strip(s) == rstrip(lstrip(s))

\* s[:n]
Prefix(s, n) == SubSeq(s, 1, IF Len(s) < n THEN Len(s) ELSE n)

\* `not s`: the empty string is falsy
Falsy(s) == s = <<>>

\* ------------------------------------------------------- agent registry
NoAgent == "None"                      \* request.agent_id is None
AGENTS_METADATA ==
    [a \in {"gente_montana", "gente_pasto"} |->
        IF a = "gente_montana" THEN [nombre |-> "Gente Montana"]
                               ELSE [nombre |-> "Gente Pasto"]]
AgentHints == {NoAgent, "gente_pasto", "desconocido"}
AgentEndpoints == {"gente_montana", "gente_pasto"}   \* agents with an endpoint of their own
RootAgentName == "root_agent"

\* f"[{root_agent.name}] procesó tu mensaje, pero no generó una respuesta de texto."
FallbackText ==
    <<"[", RootAgentName, "] proceso tu mensaje, pero no genero una respuesta de texto.">>

\* f"[Dirigido a {agent_meta['nombre']}]: {message}"
DirectedTo(nombre, message) == <<"[Dirigido a ", nombre, "]: ">> \o message

\* ------------------------------------------------- what the runner emits
\* A part whose `text` attribute is missing or None, or a text (maybe empty).
NoText == [has_text |-> FALSE, text |-> <<>>]
Parts == {NoText} \cup {[has_text |-> TRUE, text |-> t] : t \in SeqsUpTo(Chars, MaxFragLen)}
Messages == SeqsUpTo(Chars, MaxMsgLen)

\* -------------------------------- what the session service's history holds
NoTime == -1                           \* created_at is ""
NoHistory == [has_turns |-> FALSE, turns |-> <<>>]   \* None, or nothing with `turns`
Turns == [user_message : BOOLEAN, model_message : BOOLEAN]
Histories ==
    {NoHistory} \cup {[has_turns |-> TRUE, turns |-> t] : t \in SeqsUpTo(Turns, MaxTurns)}

VARIABLES
    sessions_store,     \* session id -> ADK session (its number)
    sessions_metadata,  \* session id -> [created_at, last_activity, message_count]
    clock,              \* the wall clock, as datetime.now() reads it
    handles,            \* sessions the session service has created so far
    uuids,              \* ids uuid4 has minted so far
    started,            \* dispatches started so far
    pc,                 \* per request slot: where its handler is
    req,                \* per request slot: the handler's locals
    last,               \* the HTTP response sent most recently, with the request it answers
                        \* and (history) the text the run had added up
    completed,          \* history: per id, dispatches answered 200 since the id's last deletion
    since_created,      \* history: per id, dispatches answered 200 since its stored record was written
    ever_deleted,       \* history: per id, whether delete_session ever removed it
    pre                 \* history: per request slot, its session's record when its dispatch began

vars == <<sessions_store, sessions_metadata, clock, handles, uuids, started,
          pc, req, last, completed, since_created, ever_deleted, pre>>

\* ------------------------------------------------------ dict operations
Put(f, k, v) == [x \in DOMAIN f \cup {k} |-> IF x = k THEN v ELSE f[x]]
Del(f, k) == [x \in DOMAIN f \ {k} |-> f[x]]
EmptyDict == [x \in {} |-> 0]

\* --------------------------------------------------------- pure helpers
\* Variant: line 277 without the strip() test.
Blank_no_strip(message) == Falsy(message)

\* chat_with_agent, line 277: `not request.message or not request.message.strip()`
Blank(message) == Falsy(message) \/ Falsy(strip(message))
\* chat_with_agent, line 280
TooLong(message) == Len(message) > MAX_MESSAGE_LENGTH

\* Variant: line 186 tests only `agent_id`, and an id that is not registered
\* is named as it came.
mensaje_completo_any_hint(message, agent_id) ==
    IF agent_id # NoAgent
    THEN DirectedTo(IF agent_id \in DOMAIN AGENTS_METADATA
                    THEN AGENTS_METADATA[agent_id].nombre ELSE agent_id, message)
    ELSE message

\* send_message_to_agent, lines 185-191: the text handed to the runner
mensaje_completo(message, agent_id) ==
    IF agent_id # NoAgent /\ agent_id \in DOMAIN AGENTS_METADATA
    THEN DirectedTo(AGENTS_METADATA[agent_id].nombre, message)
    ELSE message

\* Variant: line 207 tests `part.text.strip()`.
AddPart_skipping_blank(respuesta_texto, part) ==
    IF part.has_text /\ ~Falsy(strip(part.text))
    THEN respuesta_texto \o part.text
    ELSE respuesta_texto

\* send_message_to_agent, lines 207-208: respuesta_texto after one part
AddPart(respuesta_texto, part) ==
    IF part.has_text /\ ~Falsy(part.text)
    THEN respuesta_texto \o part.text
    ELSE respuesta_texto

\* Variant: line 219 tests only `not respuesta_texto`.
respuesta_final_no_strip(respuesta_texto) ==
    strip(IF Falsy(respuesta_texto) THEN FallbackText ELSE respuesta_texto)

\* send_message_to_agent, lines 219-222: fallback, then strip
respuesta_final(respuesta_texto) ==
    strip(IF Falsy(respuesta_texto) \/ Falsy(strip(respuesta_texto))
          THEN FallbackText ELSE respuesta_texto)

\* chat_with_agent, lines 305-307
agent_name(agent_id) ==
    IF agent_id # NoAgent /\ agent_id \in DOMAIN AGENTS_METADATA
    THEN AGENTS_METADATA[agent_id].nombre
    ELSE RootAgentName

\* Variant: line 156 starts message_count at 1.
NewMetadata_counting(t_created, t_activity) ==
    [created_at |-> t_created, last_activity |-> t_activity, message_count |-> 1]

\* get_or_create_session, lines 153-157
NewMetadata(t_created, t_activity) ==
    [created_at |-> t_created, last_activity |-> t_activity, message_count |-> 0]

\* Variant: lines 164-165 renew created_at as well.
StampActivity_renewing(metadata, sid, t) ==
    IF sid \in DOMAIN metadata
    THEN [metadata EXCEPT ![sid].last_activity = t, ![sid].created_at = t]
    ELSE metadata

\* get_or_create_session, lines 164-165
StampActivity(metadata, sid, t) ==
    IF sid \in DOMAIN metadata
    THEN [metadata EXCEPT ![sid].last_activity = t]
    ELSE metadata

\* Variant: line 215 is missing, only last_activity is written.
RecordMessage_stamping_only(metadata, sid, t) ==
    IF sid \in DOMAIN metadata
    THEN [metadata EXCEPT ![sid].last_activity = t]
    ELSE metadata

\* send_message_to_agent, lines 214-216
RecordMessage(metadata, sid, t) ==
    IF sid \in DOMAIN metadata
    THEN [metadata EXCEPT ![sid].message_count = @ + 1, ![sid].last_activity = t]
    ELSE metadata

\* message_count of sid as GET /api/sessions would show it; 0 when sid has no record
CountOf(metadata, sid) ==
    IF sid \in DOMAIN metadata THEN metadata[sid].message_count ELSE 0

\* History only: the record of sid as a dispatch finds it when it begins.
NoSnapshot == [stored |-> FALSE, created_at |-> 0, last_activity |-> 0, message_count |-> 0]
Snapshot(metadata, sid) ==
    IF sid \in DOMAIN metadata
    THEN [stored |-> TRUE, created_at |-> metadata[sid].created_at,
          last_activity |-> metadata[sid].last_activity,
          message_count |-> metadata[sid].message_count]
    ELSE NoSnapshot

\* ------------------------------------------------------------ responses
NoReq ==
    [message |-> <<>>, session_id |-> NoSession, agent_id |-> NoAgent, session |-> 0,
     respuesta_texto |-> <<>>, n_events |-> 0, n_parts |-> 0,
     direct |-> FALSE,        \* the handler is one of the per-agent endpoints
     created_at |-> NoTime,   \* get_session_history: created_at of the `metadata` it holds
     fragments |-> <<>>,      \* history: the non-empty texts the run's parts carried, as emitted
     overtaken |-> FALSE]     \* history: a DELETE has named session_id while the dispatch waits
NoResponse ==
    [kind |-> "none", status |-> 0, exit |-> "none", message |-> <<>>,
     session_id |-> NoSession, agent_id |-> NoAgent, response |-> <<>>,
     agent_name |-> "", routed |-> <<>>, respuesta_texto |-> <<>>,
     messages |-> <<>>, created_at |-> NoTime, message_count |-> 0,
     sessions |-> {}, agents |-> {}]

\* chat_with_agent, lines 278 and 281: HTTPException(status_code=400)
Rejected400(message, session_id, agent_id) ==
    [NoResponse EXCEPT !.kind = "chat", !.status = 400, !.exit = "Rejected",
                       !.message = message, !.session_id = session_id,
                       !.agent_id = agent_id]

\* chat_with_agent, lines 316-320, and the per-agent endpoints (lines
\* 458-459 and alike): HTTPException(status_code=500)
Fault500(exit, r, routed) ==
    [NoResponse EXCEPT !.kind = IF r.direct THEN "agent" ELSE "chat",
                       !.status = 500, !.exit = exit,
                       !.message = r.message, !.session_id = r.session_id,
                       !.agent_id = r.agent_id, !.routed = routed]

\* Variant: line 302 without the [:MAX_RESPONSE_LENGTH] slice.
ChatResponse_untruncated(r, routed, response_text) ==
    IF Falsy(response_text)
    THEN Fault500("EmptyResponse", r, routed)
    ELSE [NoResponse EXCEPT !.kind = "chat", !.status = 200, !.exit = "Completed",
                            !.message = r.message, !.session_id = r.session_id,
                            !.agent_id = r.agent_id,
                            !.response = response_text,
                            !.agent_name = agent_name(r.agent_id), !.routed = routed]

\* chat_with_agent, lines 298-314, given what send_message_to_agent returned;
\* the ValueError of line 299 is answered 500 by lines 316-320.
ChatResponse(r, routed, response_text) ==
    IF Falsy(response_text)
    THEN Fault500("EmptyResponse", r, routed)
    ELSE [NoResponse EXCEPT !.kind = "chat", !.status = 200, !.exit = "Completed",
                            !.message = r.message, !.session_id = r.session_id,
                            !.agent_id = r.agent_id,
                            !.response = Prefix(response_text, MAX_RESPONSE_LENGTH),
                            !.agent_name = agent_name(r.agent_id), !.routed = routed]

\* The per-agent endpoints, lines 452-456 and alike: AgentResponse with what
\* send_message_to_agent returned, as it is.
AgentResponse(r, routed, response_text) ==
    [NoResponse EXCEPT !.kind = "agent", !.status = 200, !.exit = "Completed",
                       !.message = r.message, !.session_id = r.session_id,
                       !.agent_id = r.agent_id, !.response = response_text,
                       !.agent_name = AGENTS_METADATA[r.agent_id].nombre,
                       !.routed = routed]

\* get_session_history, lines 357-373: the roles of the messages made of the turns
RECURSIVE MessagesOf(_)
MessagesOf(turns) ==
    IF turns = <<>> THEN <<>>
    ELSE (IF Head(turns).user_message THEN <<"user">> ELSE <<>>)
         \o (IF Head(turns).model_message THEN <<"assistant">> ELSE <<>>)
         \o MessagesOf(Tail(turns))

\* get_session_history, lines 342-347 and 384-389: SessionHistoryResponse
\* with messages=[], created_at="", message_count=0
EmptyHistory(exit, session_id) ==
    [NoResponse EXCEPT !.kind = "history", !.status = 200, !.exit = exit,
                       !.session_id = session_id]

\* get_session_history, lines 356-381
HistoryResponse(r, history) ==
    LET messages == IF history.has_turns THEN MessagesOf(history.turns) ELSE <<>>
    IN  [NoResponse EXCEPT !.kind = "history", !.status = 200, !.exit = "history",
                           !.session_id = r.session_id, !.messages = messages,
                           !.created_at = r.created_at,
                           !.message_count = Len(messages)]

\* list_sessions, lines 325-332: one SessionInfo for every item of sessions_metadata
SessionInfos(metadata) ==
    {[session_id |-> i, created_at |-> metadata[i].created_at,
      last_activity |-> metadata[i].last_activity,
      message_count |-> metadata[i].message_count] : i \in DOMAIN metadata}

\* list_agents, lines 258-268: one AgentInfo for every item of AGENTS_METADATA
AgentInfos ==
    {[id |-> a, nombre |-> AGENTS_METADATA[a].nombre] : a \in DOMAIN AGENTS_METADATA}

\* No handler is running: every handler in flight is suspended at an await.
EventLoopFree == \A q \in Procs : pc[q] \notin {"executing", "in_event"}

Init ==
    /\ sessions_store = EmptyDict
    /\ sessions_metadata = EmptyDict
    /\ clock = 0
    /\ handles = 0
    /\ uuids = 0
    /\ started = 0
    /\ pc = [p \in Procs |-> "idle"]
    /\ req = [p \in Procs |-> NoReq]
    /\ last = NoResponse
    /\ completed = [i \in SessionIds |-> 0]
    /\ since_created = [i \in SessionIds |-> 0]
    /\ ever_deleted = [i \in SessionIds |-> FALSE]
    /\ pre = [p \in Procs |-> NoSnapshot]

\* A later reading of the clock inside one uninterrupted segment.
Later(t) == {t} \cup ({t + 1} \cap (0..MaxClock))

\* --------------------------------------------------------------- actions
\* POST /api/chat: chat_with_agent, lines 277-296, into send_message_to_agent
\* (line 181) and get_or_create_session: up to the await of line 148 when the
\* id has no session, else through lines 163-167 and 185-194 to runner.run.
chat_with_agent(p, message, session_id, agent_id) ==
    /\ pc[p] = "idle"
    /\ EventLoopFree
    /\ started < MaxDispatches
    /\ started' = started + 1
    /\ UNCHANGED <<sessions_store, clock, handles, completed, since_created, ever_deleted>>
    /\ IF Blank(message) \/ TooLong(message)
       THEN /\ last' = Rejected400(message, session_id, agent_id)
            /\ UNCHANGED <<sessions_metadata, uuids, pc, req, pre>>
       ELSE LET mint == session_id = NoSession
                sid == IF mint THEN Uuid(uuids + 1) ELSE session_id
            IN  /\ mint => uuids < MaxUuids
                /\ uuids' = IF mint THEN uuids + 1 ELSE uuids
                /\ pre' = [pre EXCEPT ![p] = Snapshot(sessions_metadata, sid)]
                /\ UNCHANGED last
                /\ IF sid \notin DOMAIN sessions_store
                   THEN /\ pc' = [pc EXCEPT ![p] = "creating"]
                        /\ req' = [req EXCEPT ![p] =
                               [NoReq EXCEPT !.message = message, !.session_id = sid,
                                              !.agent_id = agent_id]]
                        /\ UNCHANGED sessions_metadata
                   ELSE /\ pc' = [pc EXCEPT ![p] = "executing"]
                        /\ req' = [req EXCEPT ![p] =
                               [NoReq EXCEPT !.message = message, !.session_id = sid,
                                              !.agent_id = agent_id,
                                              !.session = sessions_store[sid]]]
                        /\ sessions_metadata' = StampActivity(sessions_metadata, sid, clock)

\* POST /api/chat/gente_montana, /api/chat/gente_pasto and the five endpoints
\* written like them (lines 434-607): a new uuid4 for session id, the
\* endpoint's agent for agent_id, and straight into send_message_to_agent:
\* no test of the message comes first.
chat_gente(p, agent_id, message) ==
    /\ pc[p] = "idle"
    /\ EventLoopFree
    /\ started < MaxDispatches
    /\ uuids < MaxUuids
    /\ started' = started + 1
    /\ uuids' = uuids + 1
    /\ LET sid == Uuid(uuids + 1)
           r == [NoReq EXCEPT !.message = message, !.session_id = sid,
                              !.agent_id = agent_id, !.direct = TRUE]
       IN  /\ pre' = [pre EXCEPT ![p] = Snapshot(sessions_metadata, sid)]
           /\ IF sid \notin DOMAIN sessions_store
              THEN /\ pc' = [pc EXCEPT ![p] = "creating"]
                   /\ req' = [req EXCEPT ![p] = r]
                   /\ UNCHANGED sessions_metadata
              ELSE /\ pc' = [pc EXCEPT ![p] = "executing"]
                   /\ req' = [req EXCEPT ![p] = [r EXCEPT !.session = sessions_store[sid]]]
                   /\ sessions_metadata' = StampActivity(sessions_metadata, sid, clock)
    /\ UNCHANGED <<sessions_store, clock, handles, last, completed, since_created, ever_deleted>>

\* get_or_create_session resumes after `await ...create_session(...)` with a new
\* session: lines 152-158 and 163-167, then send_message_to_agent 185-194.
\* The clock is read at lines 154, 155 and 165; the reading of 155 is overwritten.
create_session_returns(p) ==
    /\ pc[p] = "creating"
    /\ EventLoopFree
    /\ LET sid == req[p].session_id
           session == handles + 1
       IN  /\ handles' = session
           /\ sessions_store' = Put(sessions_store, sid, session)
           /\ \E t1 \in Later(clock) : \E t2 \in Later(t1) :
                /\ sessions_metadata' =
                       StampActivity(Put(sessions_metadata, sid, NewMetadata(t1, t1)), sid, t2)
                /\ clock' = t2
           /\ req' = [req EXCEPT ![p].session = session, ![p].overtaken = FALSE]
           /\ since_created' = [since_created EXCEPT ![sid] = 0]
    /\ pc' = [pc EXCEPT ![p] = "executing"]
    /\ UNCHANGED <<uuids, started, last, completed, ever_deleted, pre>>

\* Variant: the except of lines 159-161 does not raise again, and the
\* dispatch goes on to the runner without a session.
create_session_raises_swallowed(p) ==
    /\ pc[p] = "creating"
    /\ EventLoopFree
    /\ pc' = [pc EXCEPT ![p] = "executing"]
    /\ UNCHANGED <<sessions_store, sessions_metadata, clock, handles, uuids,
                   started, req, last, completed, since_created, ever_deleted, pre>>

\* Variant: the id is entered in sessions_store before the await and not taken
\* out when creation fails.
create_session_raises_partial(p) ==
    /\ pc[p] = "creating"
    /\ EventLoopFree
    /\ sessions_store' = Put(sessions_store, req[p].session_id, 0)
    /\ last' = Fault500("SessionFault", req[p], <<>>)
    /\ pc' = [pc EXCEPT ![p] = "idle"]
    /\ req' = [req EXCEPT ![p] = NoReq]
    /\ pre' = [pre EXCEPT ![p] = NoSnapshot]
    /\ UNCHANGED <<sessions_metadata, clock, handles, uuids,
                   started, completed, since_created, ever_deleted>>

\* `await ...create_session(...)` raises: get_or_create_session lines 159-161,
\* caught by chat_with_agent, lines 316-320.
create_session_raises(p) ==
    /\ pc[p] = "creating"
    /\ EventLoopFree
    /\ last' = Fault500("SessionFault", req[p], <<>>)
    /\ pc' = [pc EXCEPT ![p] = "idle"]
    /\ req' = [req EXCEPT ![p] = NoReq]
    /\ pre' = [pre EXCEPT ![p] = NoSnapshot]
    /\ UNCHANGED <<sessions_store, sessions_metadata, clock, handles, uuids,
                   started, completed, since_created, ever_deleted>>

\* runner.run yields an event, lines 199-205: an event with content.parts is
\* gone through part by part, any other event adds nothing.
runner_yields(p, has_parts) ==
    /\ pc[p] = "executing"
    /\ req[p].n_events < MaxEvents
    /\ req' = [req EXCEPT ![p].n_events = @ + 1, ![p].n_parts = 0]
    /\ pc' = [pc EXCEPT ![p] = IF has_parts THEN "in_event" ELSE "executing"]
    /\ UNCHANGED <<sessions_store, sessions_metadata, clock, handles, uuids, started,
                   last, completed, since_created, ever_deleted, pre>>

\* One turn of the inner loop, lines 206-208: the text of a part, when it has
\* one, is appended to respuesta_texto.
part_of_event(p, part) ==
    /\ pc[p] = "in_event"
    /\ req[p].n_parts < MaxParts
    /\ LET texto == AddPart(req[p].respuesta_texto, part)
       IN  /\ Len(texto) <= MaxTextLen
           /\ req' = [req EXCEPT ![p].respuesta_texto = texto, ![p].n_parts = @ + 1,
                                 ![p].fragments = IF part.has_text /\ part.text # <<>>
                                                  THEN Append(@, part.text) ELSE @]
    /\ UNCHANGED <<sessions_store, sessions_metadata, clock, handles, uuids, started,
                   pc, last, completed, since_created, ever_deleted, pre>>

\* The inner loop is through with the parts of the event.
event_consumed(p) ==
    /\ pc[p] = "in_event"
    /\ pc' = [pc EXCEPT ![p] = "executing"]
    /\ req' = [req EXCEPT ![p].n_parts = 0]
    /\ UNCHANGED <<sessions_store, sessions_metadata, clock, handles, uuids, started,
                   last, completed, since_created, ever_deleted, pre>>

\* Variant: the metadata update of lines 214-216 sits in a `finally`, so it
\* also runs when runner.run raises.
runner_raises_counting(p) ==
    /\ pc[p] = "executing"
    /\ sessions_metadata' = RecordMessage(sessions_metadata, req[p].session_id, clock)
    /\ last' = Fault500("ExecutionFault", req[p],
                        mensaje_completo(req[p].message, req[p].agent_id))
    /\ pc' = [pc EXCEPT ![p] = "idle"]
    /\ req' = [req EXCEPT ![p] = NoReq]
    /\ pre' = [pre EXCEPT ![p] = NoSnapshot]
    /\ UNCHANGED <<sessions_store, clock, handles, uuids,
                   started, completed, since_created, ever_deleted>>

\* Variant: the except block of lines 209-211 stamps last_activity.
runner_raises_stamping(p) ==
    /\ pc[p] = "executing"
    /\ sessions_metadata' = StampActivity(sessions_metadata, req[p].session_id, clock)
    /\ last' = Fault500("ExecutionFault", req[p],
                        mensaje_completo(req[p].message, req[p].agent_id))
    /\ pc' = [pc EXCEPT ![p] = "idle"]
    /\ req' = [req EXCEPT ![p] = NoReq]
    /\ pre' = [pre EXCEPT ![p] = NoSnapshot]
    /\ UNCHANGED <<sessions_store, clock, handles, uuids,
                   started, completed, since_created, ever_deleted>>

\* runner.run raises: send_message_to_agent lines 209-211, caught by
\* chat_with_agent, lines 316-320.
runner_raises(p) ==
    /\ pc[p] = "executing"
    /\ last' = Fault500("ExecutionFault", req[p],
                        mensaje_completo(req[p].message, req[p].agent_id))
    /\ pc' = [pc EXCEPT ![p] = "idle"]
    /\ req' = [req EXCEPT ![p] = NoReq]
    /\ pre' = [pre EXCEPT ![p] = NoSnapshot]
    /\ UNCHANGED <<sessions_store, sessions_metadata, clock, handles, uuids,
                   started, completed, since_created, ever_deleted>>

\* runner.run is exhausted: send_message_to_agent lines 213-222, then
\* chat_with_agent lines 298-314 (or 316-320 on the ValueError of line 299),
\* or the return of the per-agent endpoint.
runner_finishes(p) ==
    /\ pc[p] = "executing"
    /\ LET r == req[p]
           routed == mensaje_completo(r.message, r.agent_id)
           resp == IF r.direct
                   THEN AgentResponse(r, routed, respuesta_final(r.respuesta_texto))
                   ELSE ChatResponse(r, routed, respuesta_final(r.respuesta_texto))
       IN  /\ sessions_metadata' = RecordMessage(sessions_metadata, r.session_id, clock)
           /\ last' = [resp EXCEPT !.respuesta_texto = r.respuesta_texto]
           /\ completed' = [completed EXCEPT ![r.session_id] =
                               IF resp.status = 200 THEN @ + 1 ELSE @]
           /\ since_created' = [since_created EXCEPT ![r.session_id] =
                               IF resp.status = 200 THEN @ + 1 ELSE @]
    /\ pc' = [pc EXCEPT ![p] = "idle"]
    /\ req' = [req EXCEPT ![p] = NoReq]
    /\ pre' = [pre EXCEPT ![p] = NoSnapshot]
    /\ UNCHANGED <<sessions_store, clock, handles, uuids, started, ever_deleted>>

\* History: the dispatches waiting for a session for session_id are marked as
\* overtaken by a DELETE of it.
Overtake(session_id) ==
    [p \in Procs |-> IF pc[p] = "creating" /\ req[p].session_id = session_id
                      THEN [req[p] EXCEPT !.overtaken = TRUE]
                      ELSE req[p]]

\* Variant: only the sessions_store entry is deleted (lines 398-400 missing).
delete_session_store_only(session_id) ==
    /\ EventLoopFree
    /\ LET deleted == session_id \in DOMAIN sessions_store
       IN  /\ sessions_store' = IF deleted THEN Del(sessions_store, session_id)
                                           ELSE sessions_store
           /\ last' = [NoResponse EXCEPT !.kind = "delete", !.status = 200,
                          !.exit = IF deleted THEN "eliminada" ELSE "no encontrada",
                          !.session_id = session_id]
           /\ ever_deleted' = [ever_deleted EXCEPT ![session_id] = @ \/ deleted]
           /\ completed' = [completed EXCEPT ![session_id] = 0]
           /\ since_created' = [since_created EXCEPT ![session_id] = 0]
    /\ req' = Overtake(session_id)
    /\ UNCHANGED <<sessions_metadata, clock, handles, uuids, started, pc, pre>>

\* Variant: `deleted` is not kept, the answer is always "eliminada exitosamente".
delete_session_always_reports(session_id) ==
    /\ EventLoopFree
    /\ LET in_store == session_id \in DOMAIN sessions_store
           in_metadata == session_id \in DOMAIN sessions_metadata
       IN  /\ sessions_store' = IF in_store THEN Del(sessions_store, session_id)
                                            ELSE sessions_store
           /\ sessions_metadata' = IF in_metadata THEN Del(sessions_metadata, session_id)
                                                  ELSE sessions_metadata
           /\ last' = [NoResponse EXCEPT !.kind = "delete", !.status = 200,
                          !.exit = "eliminada", !.session_id = session_id]
           /\ ever_deleted' = [ever_deleted EXCEPT ![session_id] = @ \/ in_store \/ in_metadata]
           /\ completed' = [completed EXCEPT ![session_id] = 0]
           /\ since_created' = [since_created EXCEPT ![session_id] = 0]
    /\ req' = Overtake(session_id)
    /\ UNCHANGED <<clock, handles, uuids, started, pc, pre>>

\* DELETE /api/sessions/{session_id}: lines 391-404
delete_session(session_id) ==
    /\ EventLoopFree
    /\ LET in_store == session_id \in DOMAIN sessions_store
           in_metadata == session_id \in DOMAIN sessions_metadata
           deleted == in_store \/ in_metadata
       IN  /\ sessions_store' = IF in_store THEN Del(sessions_store, session_id)
                                            ELSE sessions_store
           /\ sessions_metadata' = IF in_metadata THEN Del(sessions_metadata, session_id)
                                                  ELSE sessions_metadata
           /\ last' = [NoResponse EXCEPT !.kind = "delete", !.status = 200,
                          !.exit = IF deleted THEN "eliminada" ELSE "no encontrada",
                          !.session_id = session_id]
           /\ ever_deleted' = [ever_deleted EXCEPT ![session_id] = @ \/ deleted]
           /\ completed' = [completed EXCEPT ![session_id] = 0]
           /\ since_created' = [since_created EXCEPT ![session_id] = 0]
    /\ req' = Overtake(session_id)
    /\ UNCHANGED <<clock, handles, uuids, started, pc, pre>>

\* GET /api/sessions/{session_id}: get_session_history, lines 341-354, up to
\* `await runner.session_service.get_history(...)`, or to the return of line
\* 342 when the id has no session.
get_session_history(p, session_id) ==
    /\ pc[p] = "idle"
    /\ EventLoopFree
    /\ IF session_id \notin DOMAIN sessions_store
       THEN /\ last' = EmptyHistory("unknown", session_id)
            /\ UNCHANGED <<pc, req>>
       ELSE /\ pc' = [pc EXCEPT ![p] = "reading"]
            /\ req' = [req EXCEPT ![p] =
                  [NoReq EXCEPT !.session_id = session_id,
                                !.session = sessions_store[session_id],
                                !.created_at =
                                    IF session_id \in DOMAIN sessions_metadata
                                    THEN sessions_metadata[session_id].created_at
                                    ELSE NoTime]]
            /\ UNCHANGED last
    /\ UNCHANGED <<sessions_store, sessions_metadata, clock, handles, uuids, started,
                   completed, since_created, ever_deleted, pre>>

\* get_history returns: get_session_history, lines 356-381.
get_history_returns(p, history) ==
    /\ pc[p] = "reading"
    /\ EventLoopFree
    /\ last' = HistoryResponse(req[p], history)
    /\ pc' = [pc EXCEPT ![p] = "idle"]
    /\ req' = [req EXCEPT ![p] = NoReq]
    /\ UNCHANGED <<sessions_store, sessions_metadata, clock, handles, uuids, started,
                   completed, since_created, ever_deleted, pre>>

\* Variant: the handler has no try/except, the exception is answered 500.
get_history_raises_propagating(p) ==
    /\ pc[p] = "reading"
    /\ EventLoopFree
    /\ last' = [EmptyHistory("degraded", req[p].session_id) EXCEPT !.status = 500]
    /\ pc' = [pc EXCEPT ![p] = "idle"]
    /\ req' = [req EXCEPT ![p] = NoReq]
    /\ UNCHANGED <<sessions_store, sessions_metadata, clock, handles, uuids, started,
                   completed, since_created, ever_deleted, pre>>

\* get_history raises (or there is no such method, or a turn is not made as
\* lines 359-372 expect): get_session_history, lines 382-389.
get_history_raises(p) ==
    /\ pc[p] = "reading"
    /\ EventLoopFree
    /\ last' = EmptyHistory("degraded", req[p].session_id)
    /\ pc' = [pc EXCEPT ![p] = "idle"]
    /\ req' = [req EXCEPT ![p] = NoReq]
    /\ UNCHANGED <<sessions_store, sessions_metadata, clock, handles, uuids, started,
                   completed, since_created, ever_deleted, pre>>

\* Variant: listing counts as activity, every session listed is stamped.
list_sessions_stamping ==
    /\ EventLoopFree
    /\ sessions_metadata' =
          [i \in DOMAIN sessions_metadata |->
              [sessions_metadata[i] EXCEPT !.last_activity = clock]]
    /\ last' = [NoResponse EXCEPT !.kind = "sessions", !.status = 200,
                                  !.sessions = SessionInfos(sessions_metadata')]
    /\ UNCHANGED <<sessions_store, clock, handles, uuids, started, pc, req,
                   completed, since_created, ever_deleted, pre>>

\* GET /api/sessions: list_sessions, lines 322-333
list_sessions ==
    /\ EventLoopFree
    /\ last' = [NoResponse EXCEPT !.kind = "sessions", !.status = 200,
                                  !.sessions = SessionInfos(sessions_metadata)]
    /\ UNCHANGED <<sessions_store, sessions_metadata, clock, handles, uuids, started,
                   pc, req, completed, since_created, ever_deleted, pre>>

\* GET /api/agents: list_agents, lines 255-268
list_agents ==
    /\ EventLoopFree
    /\ last' = [NoResponse EXCEPT !.kind = "agents", !.status = 200,
                                  !.agents = AgentInfos]
    /\ UNCHANGED <<sessions_store, sessions_metadata, clock, handles, uuids, started,
                   pc, req, completed, since_created, ever_deleted, pre>>

\* POST /api/select-agent: select_agent, lines 406-430
select_agent(agent_id) ==
    /\ EventLoopFree
    /\ last' = IF agent_id \notin DOMAIN AGENTS_METADATA
               THEN [NoResponse EXCEPT !.kind = "select", !.status = 404,
                                       !.agent_id = agent_id]
               ELSE [NoResponse EXCEPT !.kind = "select", !.status = 200,
                                       !.agent_id = agent_id,
                                       !.agent_name = AGENTS_METADATA[agent_id].nombre]
    /\ UNCHANGED <<sessions_store, sessions_metadata, clock, handles, uuids, started,
                   pc, req, completed, since_created, ever_deleted, pre>>

\* Wall-clock time passes (also while runner.run blocks the event loop).
Tick ==
    /\ clock < MaxClock
    /\ clock' = clock + 1
    /\ UNCHANGED <<sessions_store, sessions_metadata, handles, uuids, started,
                   pc, req, last, completed, since_created, ever_deleted, pre>>

\* The behaviours in which the session store is what matters: any number of
\* requests in flight; the runner's events carry no content, so every answer
\* is the fallback text.
Next ==
    \/ \E p \in Procs, message \in Messages,
          session_id \in ClientIds \cup {NoSession}, agent_id \in {NoAgent} :
            chat_with_agent(p, message, session_id, agent_id)
    \/ \E p \in Procs : create_session_returns(p)
    \/ \E p \in Procs : create_session_raises(p)
    \/ \E p \in Procs : runner_yields(p, FALSE)
    \/ \E p \in Procs : runner_raises(p)
    \/ \E p \in Procs : runner_finishes(p)
    \/ \E session_id \in SessionIds : delete_session(session_id)
    \/ Tick

Spec == Init /\ [][Next]_vars

\* The capability calls of the dispatch in slot p come to an end: create_session
\* returns or raises, and runner.run yields its next event, is exhausted or
\* raises.
CapabilityAnswers(p) ==
    /\ WF_vars(create_session_returns(p) \/ create_session_raises(p))
    /\ WF_vars(runner_yields(p, FALSE) \/ runner_raises(p) \/ runner_finishes(p))

\* The steps of the handlers alone (the clock moves when a handler that
\* creates a session reads it), with capability calls that always come to an
\* end; the event loop resumes every handler whose await has completed.
LiveNext ==
    \/ \E p \in Procs, message \in Messages, session_id \in ClientIds \cup {NoSession} :
            chat_with_agent(p, message, session_id, NoAgent)
    \/ \E p \in Procs : create_session_returns(p)
    \/ \E p \in Procs : create_session_raises(p)
    \/ \E p \in Procs : runner_yields(p, FALSE)
    \/ \E p \in Procs : runner_raises(p)
    \/ \E p \in Procs : runner_finishes(p)
    \/ \E session_id \in SessionIds : delete_session(session_id)

LiveSpec == Init /\ [][LiveNext]_vars /\ \A p \in Procs : CapabilityAnswers(p)

\* The client takes the response off the wire.
client_reads_response ==
    /\ last.kind # "none"
    /\ last' = NoResponse
    /\ UNCHANGED <<sessions_store, sessions_metadata, clock, handles, uuids, started,
                   pc, req, completed, since_created, ever_deleted, pre>>

\* The behaviours in which the text is what matters: one client that sends a
\* request for its session when it has read the response to the one before,
\* every agent hint, and events with any parts.
TextNext ==
    \/ /\ last.kind = "none"
       /\ \E message \in Messages, session_id \in ClientIds, agent_id \in AgentHints :
              chat_with_agent(1, message, session_id, agent_id)
    \/ create_session_returns(1)
    \/ create_session_raises(1)
    \/ \E has_parts \in BOOLEAN : runner_yields(1, has_parts)
    \/ \E part \in Parts : part_of_event(1, part)
    \/ event_consumed(1)
    \/ runner_raises(1)
    \/ runner_finishes(1)
    \/ client_reads_response

TextSpec == Init /\ [][TextNext]_vars

\* The behaviours in which no two dispatches overlap: a request is taken up
\* when the one before has been answered.  Sessions are deleted and time
\* passes at any point where the event loop is free.
SeqNext ==
    \/ \E message \in Messages, session_id \in ClientIds \cup {NoSession} :
            chat_with_agent(1, message, session_id, NoAgent)
    \/ create_session_returns(1)
    \/ create_session_raises(1)
    \/ runner_yields(1, FALSE)
    \/ runner_raises(1)
    \/ runner_finishes(1)
    \/ \E session_id \in SessionIds : delete_session(session_id)
    \/ Tick

SeqSpec == Init /\ [][SeqNext]_vars

\* The behaviours in which the history of a session is asked for: dispatches
\* one after the other in slot 1, history requests in slot 2, each of which
\* may be suspended while dispatches and deletions go on.  The clock moves
\* when a handler that creates a session reads it.
ReadNext ==
    \/ \E message \in Messages, session_id \in ClientIds \cup {NoSession} :
            chat_with_agent(1, message, session_id, NoAgent)
    \/ create_session_returns(1)
    \/ create_session_raises(1)
    \/ runner_yields(1, FALSE)
    \/ runner_raises(1)
    \/ runner_finishes(1)
    \/ \E session_id \in SessionIds : delete_session(session_id)
    \/ \E session_id \in SessionIds : get_session_history(2, session_id)
    \/ \E history \in Histories : get_history_returns(2, history)
    \/ get_history_raises(2)

ReadSpec == Init /\ [][ReadNext]_vars

\* ReadSpec with the other handlers that only read: the list of sessions, the
\* list of agents and the selection of an agent.
QueryNext ==
    \/ ReadNext
    \/ list_sessions
    \/ list_agents
    \/ \E agent_id \in AgentHints \ {NoAgent} : select_agent(agent_id)

QuerySpec == Init /\ [][QueryNext]_vars

\* The behaviours of the per-agent endpoints: one client that sends any
\* message to one of them when it has read the response to the one before.
DirectNext ==
    \/ /\ last.kind = "none"
       /\ \E agent_id \in AgentEndpoints, message \in Messages :
              chat_gente(1, agent_id, message)
    \/ create_session_returns(1)
    \/ create_session_raises(1)
    \/ \E has_parts \in BOOLEAN : runner_yields(1, has_parts)
    \/ \E part \in Parts : part_of_event(1, part)
    \/ event_consumed(1)
    \/ runner_raises(1)
    \/ runner_finishes(1)
    \/ client_reads_response

DirectSpec == Init /\ [][DirectNext]_vars

\* ================================================================ claims
\* Steps of the dispatch in request slot p, told by its position.
Begins(p) == pc[p] = "idle" /\ pc'[p] # "idle"
Suspends(p) == pc[p] = "idle" /\ pc'[p] = "creating"
CreationFails(p) == pc[p] = "creating" /\ pc'[p] = "idle"
Leaves(p) == pc[p] = "executing" /\ pc'[p] = "idle"
RejectedStep == started' = started + 1 /\ pc' = pc
StoreUnchanged == UNCHANGED <<sessions_store, sessions_metadata>>
\* Blank or too long, in the words of the spec: empty, whitespace only, or
\* more than MAX_MESSAGE_LENGTH characters.
InvalidMessage(m) ==
    \/ \A i \in 1..Len(m) : m[i] \in Whitespace
    \/ Len(m) > MAX_MESSAGE_LENGTH

\* C1: in every reachable state sessions_store and sessions_metadata have the
\* same key set: no handle without metadata, no metadata without a handle.
C1_SameKeys == DOMAIN sessions_store = DOMAIN sessions_metadata
\* One id is stored while another has been created and deleted again.
C1_Witness ==
    \E i, j \in SessionIds :
        /\ i # j
        /\ i \in DOMAIN sessions_store
        /\ ever_deleted[j] /\ j \notin DOMAIN sessions_metadata

\* C2 (as claimed): the handle stored for an id is never replaced by another
\* one while the id stays in the store, so concurrent dispatches naming one new
\* id allocate a single handle for it.
C2_HandleNeverReplaced ==
    [][\A i \in DOMAIN sessions_store \cap DOMAIN sessions_store' :
          sessions_store'[i] = sessions_store[i]]_vars

\* C3 (as claimed): the message_count of an id that was never deleted equals
\* the number of dispatches naming it that were answered 200.
C3_CountIsCompleted ==
    \A i \in DOMAIN sessions_metadata :
        ~ever_deleted[i] => sessions_metadata[i].message_count = completed[i]

\* C4: when runner.run raises, the dispatch is answered 500 and the session's
\* message_count is what it was when the dispatch began (0 for an id that had
\* no session then).
C4_FaultKeepsCount ==
    [][\A p \in Procs :
          (Leaves(p) /\ last'.exit = "ExecutionFault") =>
              /\ last'.status = 500
              /\ CountOf(sessions_metadata', req[p].session_id) = pre[p].message_count]_vars
\* A run has raised in a session that already counted a message.
C4_Witness ==
    /\ last.exit = "ExecutionFault" /\ last.status = 500
    /\ CountOf(sessions_metadata, last.session_id) > 0

\* C5: a POST /api/chat whose message is blank or longer than
\* MAX_MESSAGE_LENGTH is answered 400 at once: it never gets as far as session
\* work, and sessions_store and sessions_metadata are as before.
C5_InvalidRejected ==
    [][started' = started + 1 =>
          \/ \E p \in Procs : Begins(p) /\ ~InvalidMessage(req'[p].message)
          \/ /\ RejectedStep
             /\ last'.exit = "Rejected" /\ last'.status = 400
             /\ InvalidMessage(last'.message)
             /\ StoreUnchanged
             /\ UNCHANGED <<handles, uuids>>]_vars
\* An over-long message was rejected while the session it names holds a counted
\* message.
C5_Witness ==
    /\ last.exit = "Rejected" /\ last.status = 400
    /\ Len(last.message) > MAX_MESSAGE_LENGTH
    /\ last.session_id \in DOMAIN sessions_metadata
    /\ sessions_metadata[last.session_id].message_count > 0

\* C6 (as claimed): a dispatch that leaves through Rejected, SessionFault or
\* ExecutionFault finds the session it names as it was when the dispatch
\* began: stored or not as before, with the same created_at, last_activity and
\* message_count.
C6_FailureMutatesNothing ==
    [][/\ RejectedStep => StoreUnchanged
       /\ \A p \in Procs :
            ((CreationFails(p) \/ Leaves(p)) /\ last'.status # 200) =>
                Snapshot(sessions_metadata', req[p].session_id) = pre[p]]_vars

\* C6 (amended): no step of a dispatch that leaves through Rejected or
\* SessionFault changes sessions_store or sessions_metadata.  A dispatch that
\* leaves through ExecutionFault has resolved its session before the run: the
\* raising step changes nothing, and a session that existed when the dispatch
\* began keeps its created_at and message_count, while its last_activity has
\* been stamped (it has not gone back); an id without a session has got one.
C6_FailureExitsAmended ==
    [][/\ RejectedStep => StoreUnchanged
       /\ \A p \in Procs :
            /\ Suspends(p) => StoreUnchanged
            /\ CreationFails(p) => (last'.exit = "SessionFault" /\ StoreUnchanged)
            /\ (Leaves(p) /\ last'.exit = "ExecutionFault") =>
                 /\ StoreUnchanged
                 /\ req[p].session_id \in DOMAIN sessions_metadata'
                 /\ pre[p].stored =>
                      LET m == sessions_metadata'[req[p].session_id]
                      IN  /\ m.created_at = pre[p].created_at
                          /\ m.message_count = pre[p].message_count
                          /\ m.last_activity >= pre[p].last_activity]_vars
\* A session creation has failed while another session is stored.
C6_Witness ==
    /\ last.exit = "SessionFault"
    /\ DOMAIN sessions_store # {}

\* C7: when create_session raises, the dispatch is answered 500 and neither
\* sessions_store nor sessions_metadata gains an entry.
C7_CreationAllOrNothing ==
    [][\A p \in Procs :
          CreationFails(p) =>
              /\ last'.status = 500
              /\ DOMAIN sessions_store' = DOMAIN sessions_store
              /\ DOMAIN sessions_metadata' = DOMAIN sessions_metadata
              /\ req[p].session_id \notin DOMAIN sessions_store
                    => req[p].session_id \notin DOMAIN sessions_store']_vars
\* A creation has failed and its id is in neither map.
C7_Witness ==
    /\ last.exit = "SessionFault" /\ last.status = 500
    /\ last.session_id \notin DOMAIN sessions_store
    /\ last.session_id \notin DOMAIN sessions_metadata

\* C8 (as claimed): while an id stays stored, its last_activity and its
\* message_count never decrease, and message_count changes only in the step
\* in which a dispatch naming the id is answered 200.
C8_Monotone ==
    [][\A i \in DOMAIN sessions_metadata \cap DOMAIN sessions_metadata' :
          /\ sessions_metadata'[i].last_activity >= sessions_metadata[i].last_activity
          /\ sessions_metadata'[i].message_count >= sessions_metadata[i].message_count
          /\ sessions_metadata'[i].message_count # sessions_metadata[i].message_count =>
                \E p \in Procs : /\ Leaves(p) /\ req[p].session_id = i
                                 /\ last'.exit = "Completed"]_vars

\* C9 (as claimed): while an id stays stored, its created_at does not change.
C9_CreatedAtFixed ==
    [][\A i \in DOMAIN sessions_metadata \cap DOMAIN sessions_metadata' :
          sessions_metadata'[i].created_at = sessions_metadata[i].created_at]_vars

AllWhitespace(s) == \A i \in 1..Len(s) : s[i] \in Whitespace

\* C10: a dispatch of a valid message whose run ends without raising is
\* answered 200 with a response that is not empty, and when the run added up
\* to no text or to whitespace only, the response is the fallback text naming
\* the root agent.
C10_ResponseNeverEmpty ==
    last.kind = "chat" =>
        /\ last.exit # "EmptyResponse"
        /\ last.exit = "Completed" =>
              /\ ~InvalidMessage(last.message)
              /\ last.status = 200
              /\ Len(last.response) > 0
              /\ AllWhitespace(last.respuesta_texto) => last.response = FallbackText
\* A run that emitted whitespace only was answered with the fallback text.
C10_Witness ==
    /\ last.exit = "Completed"
    /\ last.respuesta_texto # <<>> /\ AllWhitespace(last.respuesta_texto)
    /\ last.response = FallbackText

\* s without its leading and trailing whitespace, said without str.strip():
\* the stretch of s from its first to its last character that is not whitespace.
Trimmed(s) ==
    LET keep == {i \in 1..Len(s) : s[i] \notin Whitespace}
    IN  IF keep = {} THEN <<>>
        ELSE LET lo == CHOOSE i \in keep : \A j \in keep : i <= j
                 hi == CHOOSE i \in keep : \A j \in keep : j <= i
             IN  [k \in 1..(hi - lo + 1) |-> s[lo + k - 1]]
\* t is the first n characters of s.
FirstChars(t, s, n) == Len(t) = n /\ Len(s) >= n /\ \A i \in 1..n : t[i] = s[i]

\* C11 (as claimed): the response of a POST /api/chat answered 200 is never
\* longer than MAX_RESPONSE_LENGTH, and when the text the run added up to is
\* longer than that, the response is exactly its first MAX_RESPONSE_LENGTH
\* characters.
C11_TruncatedAggregate ==
    (last.kind = "chat" /\ last.exit = "Completed") =>
        /\ Len(last.response) <= MAX_RESPONSE_LENGTH
        /\ Len(last.respuesta_texto) > MAX_RESPONSE_LENGTH =>
              FirstChars(last.response, last.respuesta_texto, MAX_RESPONSE_LENGTH)

\* C11 (amended): the response of a POST /api/chat answered 200 is never
\* longer than MAX_RESPONSE_LENGTH; the text the run added up to is stripped of
\* leading and trailing whitespace first, and when what is left is longer than
\* MAX_RESPONSE_LENGTH the response is exactly its first MAX_RESPONSE_LENGTH
\* characters, otherwise (when anything is left) the response is all of it.
C11_TruncatedStripped ==
    (last.kind = "chat" /\ last.exit = "Completed") =>
        /\ Len(last.response) <= MAX_RESPONSE_LENGTH
        /\ LET t == Trimmed(last.respuesta_texto)
           IN  /\ Len(t) > MAX_RESPONSE_LENGTH =>
                     FirstChars(last.response, t, MAX_RESPONSE_LENGTH)
               /\ (t # <<>> /\ Len(t) <= MAX_RESPONSE_LENGTH) => last.response = t
\* A run added up to more than MAX_RESPONSE_LENGTH characters that are not
\* whitespace, and the response is MAX_RESPONSE_LENGTH long.
C11_Witness ==
    /\ last.exit = "Completed"
    /\ Len(Trimmed(last.respuesta_texto)) > MAX_RESPONSE_LENGTH
    /\ Len(last.response) = MAX_RESPONSE_LENGTH

RECURSIVE Concatenation(_)
Concatenation(texts) ==
    IF texts = <<>> THEN <<>> ELSE Head(texts) \o Concatenation(Tail(texts))

\* C12: at every point of a run, and when the run is exhausted, the text added
\* up so far is the concatenation, in the order of emission, of every
\* non-empty text the parts of the events carried: nothing dropped, reordered
\* or altered.
C12_AggregateIsConcatenation ==
    [][\A p \in Procs :
          /\ req'[p].respuesta_texto = Concatenation(req'[p].fragments)
          /\ (Leaves(p) /\ last'.status = 200) =>
                last'.respuesta_texto = Concatenation(req[p].fragments)]_vars
\* A run is at its end with more texts than one event has parts, one of them
\* of several characters, whitespace among them.
C12_Witness ==
    \E p \in Procs :
        /\ pc[p] = "executing" /\ req[p].n_events = MaxEvents
        /\ Len(req[p].fragments) > MaxParts
        /\ \E k \in 1..Len(req[p].fragments) : Len(req[p].fragments[k]) > 1
        /\ \E k \in 1..Len(req[p].fragments) : AllWhitespace(req[p].fragments[k])
        /\ req[p].respuesta_texto = Concatenation(req[p].fragments)

\* C13: the agent hint of a POST /api/chat only annotates.  With a registered
\* hint the runner is handed the message behind "[Dirigido a <nombre>]: " and
\* the answer carries that nombre as agent_name; with no hint or one that is
\* not registered the runner is handed the message as it came and the answer
\* carries the root agent's name.  The hint never makes a request fail: only
\* an invalid message is rejected.
C13_HintIsAdvisory ==
    last.kind = "chat" =>
        /\ last.exit = "Rejected" => InvalidMessage(last.message)
        /\ last.exit \in {"Completed", "ExecutionFault"} =>
              IF last.agent_id = "gente_pasto"
              THEN /\ last.routed = <<"[Dirigido a ", "Gente Pasto", "]: ">> \o last.message
                   /\ last.exit = "Completed" => last.agent_name = "Gente Pasto"
              ELSE /\ last.routed = last.message
                   /\ last.exit = "Completed" => last.agent_name = RootAgentName
\* A request with a hint that is not registered has been answered 200 in the
\* root agent's name.
C13_Witness ==
    /\ last.exit = "Completed" /\ last.status = 200
    /\ last.agent_id = "desconocido"
    /\ last.agent_name = RootAgentName
    /\ last.routed = last.message

\* C14 (as claimed): a per-agent endpoint does what POST /api/chat does with a
\* new session id and the endpoint's agent for hint: a blank or over-long
\* message is answered 400 before any session work, and a response is never
\* longer than MAX_RESPONSE_LENGTH and carries the agent's nombre.
C14_EndpointIsDispatch ==
    /\ \A p \in Procs : req[p].direct => ~InvalidMessage(req[p].message)
    /\ last.kind = "agent" =>
          /\ InvalidMessage(last.message) => last.status = 400
          /\ last.status = 200 =>
                /\ Len(last.response) <= MAX_RESPONSE_LENGTH
                /\ last.agent_name = AGENTS_METADATA[last.agent_id].nombre

\* A DELETE /api/sessions/{i} is answered in this step.
Deletes(i) ==
    /\ last'.kind = "delete" /\ last'.session_id = i
    /\ req' = Overtake(i)
    /\ UNCHANGED <<pc, started, clock>>
\* f and g are the same apart from key i.
SameButFor(f, g, i) ==
    /\ DOMAIN f \ {i} = DOMAIN g \ {i}
    /\ \A j \in DOMAIN f \ {i} : f[j] = g[j]

\* C15: DELETE /api/sessions/{id} is answered 200 and leaves the id in neither
\* sessions_store nor sessions_metadata; it reports "eliminada" exactly when
\* the id was in one of them, so deleting an id that is not stored changes
\* nothing; and every other id keeps its handle and its record.
C15_DeleteRemovesOne ==
    [][\A i \in SessionIds :
          Deletes(i) =>
              /\ last'.status = 200
              /\ i \notin DOMAIN sessions_store' /\ i \notin DOMAIN sessions_metadata'
              /\ IF i \in DOMAIN sessions_store \/ i \in DOMAIN sessions_metadata
                 THEN last'.exit = "eliminada"
                 ELSE last'.exit = "no encontrada" /\ StoreUnchanged
              /\ SameButFor(sessions_store', sessions_store, i)
              /\ SameButFor(sessions_metadata', sessions_metadata, i)]_vars
\* An id has been deleted a second time, with nothing to remove, while another
\* id holds a session with a counted message.
C15_Witness ==
    /\ last.kind = "delete" /\ last.exit = "no encontrada"
    /\ ever_deleted[last.session_id]
    /\ \E j \in DOMAIN sessions_store :
          j # last.session_id /\ sessions_metadata[j].message_count > 0

\* The dispatch in slot p gets the session it waited for.
Creates(p) == pc[p] = "creating" /\ pc'[p] = "executing"

\* C16: a dispatch that names an id without a session (as every id is after
\* its delete_session) waits for a new one, and what it then stores for the id
\* is new in every respect: message_count 0, created_at read from the clock in
\* that step, and a handle the session service has not given out before.
C16_RecreatedIsNew ==
    [][\A p \in Procs :
          /\ (Begins(p) /\ req'[p].session_id \notin DOMAIN sessions_store) => Suspends(p)
          /\ Creates(p) =>
                LET i == req[p].session_id
                IN  /\ i \in DOMAIN sessions_store' /\ i \in DOMAIN sessions_metadata'
                    /\ sessions_metadata'[i].message_count = 0
                    /\ sessions_metadata'[i].created_at \in clock..clock'
                    /\ sessions_metadata'[i].last_activity \in clock..clock'
                    /\ sessions_store'[i] > handles
                    /\ \A j \in DOMAIN sessions_store : sessions_store'[i] # sessions_store[j]
                    /\ req'[p].session = sessions_store'[i]]_vars
\* An id that was deleted has a session again, created at a later time and
\* with a later handle than any first session can have.
C16_Witness ==
    \E p \in Procs :
        LET i == req[p].session_id
        IN  /\ pc[p] = "executing"
            /\ ever_deleted[i] /\ i \in DOMAIN sessions_store
            /\ sessions_store[i] > 1
            /\ sessions_metadata[i].created_at > 0
            /\ sessions_metadata[i].message_count = 0

\* C17: when dispatches do not overlap, the first one naming an id allocates
\* its session and gets the handle it stored; the handle stays as it is while
\* the id is stored; and a later dispatch naming the id gets that handle,
\* allocates nothing and changes nothing but the id's last_activity, which it
\* sets to the time of the call.
C17_SecondCallOnlyStamps ==
    [][/\ \A i \in DOMAIN sessions_store \cap DOMAIN sessions_store' :
            sessions_store'[i] = sessions_store[i]
       /\ \A p \in Procs :
            LET i == req'[p].session_id
            IN  /\ Creates(p) => req'[p].session = sessions_store'[i]
                /\ (Begins(p) /\ i \in DOMAIN sessions_store) =>
                      /\ pc'[p] = "executing"
                      /\ req'[p].session = sessions_store[i]
                      /\ UNCHANGED <<handles, sessions_store>>
                      /\ SameButFor(sessions_metadata', sessions_metadata, i)
                      /\ i \in DOMAIN sessions_metadata'
                      /\ sessions_metadata'[i] =
                            [created_at |-> sessions_metadata[i].created_at,
                             last_activity |-> clock,
                             message_count |-> sessions_metadata[i].message_count]]_vars
\* A later dispatch runs in the session an earlier one created and counted a
\* message in, and has stamped it at a later time.
C17_Witness ==
    \E p \in Procs :
        LET i == req[p].session_id
        IN  /\ pc[p] = "executing" /\ pre[p].stored
            /\ req[p].session = sessions_store[i]
            /\ handles = 1
            /\ sessions_metadata[i].message_count > 0
            /\ sessions_metadata[i].last_activity > sessions_metadata[i].created_at

\* C18: GET /api/sessions/{id} is always answered 200.  For an id without a
\* session it is answered at once with no messages and message_count 0; when
\* get_history raises, the answer is that same empty result.  No step of the
\* handler changes sessions_store or sessions_metadata or allocates a session.
C18_HistoryNeverFails ==
    [][/\ (last' # last /\ last'.kind = "history") =>
            /\ last'.status = 200
            /\ StoreUnchanged /\ UNCHANGED handles
            /\ last'.exit = "unknown" => last'.session_id \notin DOMAIN sessions_store
            /\ last'.exit \in {"unknown", "degraded"} =>
                  /\ last'.messages = <<>>
                  /\ last'.message_count = 0
                  /\ last'.created_at = NoTime
       /\ \A p \in Procs :
            /\ (pc[p] = "idle" /\ pc'[p] = "reading") =>
                  /\ StoreUnchanged /\ UNCHANGED handles
                  /\ req'[p].session_id \in DOMAIN sessions_store
            /\ (pc[p] = "reading" /\ pc'[p] # "reading") =>
                  /\ pc'[p] = "idle"
                  /\ last'.kind = "history" /\ last'.status = 200
                  /\ last'.session_id = req[p].session_id
                  /\ StoreUnchanged /\ UNCHANGED handles]_vars
\* get_history has raised for a session that holds a counted message, and the
\* answer is the empty result.
C18_Witness ==
    /\ last.kind = "history" /\ last.exit = "degraded" /\ last.status = 200
    /\ last.messages = <<>>
    /\ last.session_id \in DOMAIN sessions_metadata
    /\ sessions_metadata[last.session_id].message_count > 0

\* C19 (as claimed): a session is created only for an id that is not in
\* sessions_store when it is created, and an id leaves sessions_store only in
\* a delete_session of that id: no dispatch, whatever its exit, removes it.
C19_Lifecycle ==
    [][/\ \A p \in Procs : Creates(p) => req[p].session_id \notin DOMAIN sessions_store
       /\ \A i \in DOMAIN sessions_store :
            i \notin DOMAIN sessions_store' => Deletes(i)]_vars

\* The dispatch in slot p is answered in this step, with the response to its
\* own request.
Answered(p, exits) ==
    /\ pc'[p] = "idle"
    /\ last'.kind = "chat" /\ last'.exit \in exits
    /\ last'.session_id = req[p].session_id /\ last'.message = req[p].message

\* One step, seen as a step of the dispatches: each moves through its stages in
\* order and leaves each through that stage's exit only.
StagesInOrder ==
    /\ started' = started + 1 =>
          \/ RejectedStep /\ last'.exit = "Rejected"
          \/ \E p \in Procs : Begins(p) /\ last' = last
    /\ \A p \in Procs :
          /\ Begins(p) =>
                /\ started' = started + 1
                /\ ~InvalidMessage(req'[p].message)
                /\ pc'[p] = IF req'[p].session_id \in DOMAIN sessions_store
                            THEN "executing" ELSE "creating"
          /\ (pc[p] = "creating" /\ pc'[p] # "creating") =>
                \/ /\ pc'[p] = "executing" /\ handles' = handles + 1
                   /\ req'[p].session = handles' /\ last' = last
                \/ Answered(p, {"SessionFault"}) /\ last'.status = 500
          /\ (pc[p] = "executing" /\ pc'[p] # "executing") =>
                \/ Answered(p, {"Completed"}) /\ last'.status = 200
                \/ Answered(p, {"ExecutionFault"}) /\ last'.status = 500
          /\ pc'[p] # pc[p] => \A q \in Procs \ {p} : pc'[q] = pc[q]

\* C20: a dispatch goes through its stages in order and leaves each through
\* that stage's exit only: an invalid message is rejected at once; a valid one
\* goes on to wait for its session or, having one, to the runner; the wait ends
\* only when create_session returns (on to the runner) or raises
\* (SessionFault); the run ends only in Completed or ExecutionFault; and
\* nothing else answers or moves a dispatch.  When create_session and
\* runner.run come to an end, every dispatch is answered.
C20_StagesAndTermination ==
    /\ [][StagesInOrder]_vars
    /\ \A p \in Procs : (pc[p] # "idle") ~> (pc[p] = "idle")
\* Every dispatch there can be has been answered, each after a session was
\* created for it, the last one with ExecutionFault.
C20_Witness ==
    /\ started = MaxDispatches
    /\ \A p \in Procs : pc[p] = "idle"
    /\ handles = MaxDispatches
    /\ last.exit = "ExecutionFault"

\* One step, when it is a step of a handler that only reads: it leaves
\* sessions_store and sessions_metadata as they are and allocates no session,
\* and a list of sessions has one entry for every id in sessions_store, with
\* the id's created_at, last_activity and message_count as they are stored.
ReadsOnly ==
    /\ (last' # last /\ last'.kind \in {"sessions", "agents", "select", "history"}) =>
          StoreUnchanged /\ UNCHANGED handles
    /\ \A p \in Procs :
          ((pc[p] = "reading" \/ pc'[p] = "reading") /\ pc'[p] # pc[p]) =>
              StoreUnchanged /\ UNCHANGED handles
    /\ (last' # last /\ last'.kind = "sessions") =>
          /\ last'.status = 200
          /\ \A e \in last'.sessions : e.session_id \in DOMAIN sessions_store
          /\ \A i \in DOMAIN sessions_store :
                /\ Cardinality({e \in last'.sessions : e.session_id = i}) = 1
                /\ \E e \in last'.sessions :
                      /\ e.session_id = i
                      /\ e.created_at = sessions_metadata[i].created_at
                      /\ e.last_activity = sessions_metadata[i].last_activity
                      /\ e.message_count = sessions_metadata[i].message_count

\* C21: list_sessions, get_session_history, list_agents and select_agent
\* change neither sessions_store nor sessions_metadata and create no session,
\* and list_sessions answers with exactly one entry for every stored id,
\* carrying that id's metadata as it is.
C21_ReadsChangeNothing == [][ReadsOnly]_vars
\* Two sessions have been listed, one with a counted message and an activity
\* older than the clock.
C21_Witness ==
    /\ last.kind = "sessions"
    /\ Cardinality(last.sessions) = 2
    /\ last.sessions = SessionInfos(sessions_metadata)
    /\ \E e \in last.sessions : e.message_count > 0 /\ e.last_activity < clock

\* One step: a dispatch that a DELETE of its id has overtaken stores no
\* session, and an id enters sessions_store only in the step in which a
\* dispatch naming it, begun after every DELETE of it so far, gets its session.
DeleteStays ==
    /\ \A p \in Procs : Creates(p) => ~req[p].overtaken
    /\ \A i \in SessionIds :
          (i \notin DOMAIN sessions_store /\ i \in DOMAIN sessions_store') =>
              \E p \in Procs : Creates(p) /\ req[p].session_id = i

\* C22: after delete_session(id) has returned, id stays out of sessions_store
\* and sessions_metadata until a dispatch that begins after the delete names
\* it; a dispatch that began before the delete creates no entry for id.
C22_DeleteNotUndone == [][DeleteStays]_vars

\* C23: every stored session has created_at <= last_activity and a
\* message_count that is not negative, and when its message_count is 0 no
\* dispatch naming its id has been answered 200 since its record was written.
C23_StoredSessionsSound ==
    \A i \in DOMAIN sessions_metadata :
        /\ sessions_metadata[i].created_at <= sessions_metadata[i].last_activity
        /\ sessions_metadata[i].message_count >= 0
        /\ sessions_metadata[i].message_count = 0 => since_created[i] = 0
\* A session is stored with message_count 0 and an activity later than its
\* creation, in place of one that had counted a dispatch answered 200, while
\* the dispatch that stored it is still running.
C23_Witness ==
    \E p \in Procs :
        /\ pc[p] = "executing"
        /\ req[p].session_id \in DOMAIN sessions_metadata
        /\ sessions_metadata[req[p].session_id].message_count = 0
        /\ sessions_metadata[req[p].session_id].created_at <
              sessions_metadata[req[p].session_id].last_activity
        /\ completed[req[p].session_id] > 0

====
